---- MODULE Spec2Model ----
(***************************************************************************)
(* Question-answering workflow of toro-ai-assistant: the Ingest, Process   *)
(* and Notify handlers over the question store and the two topics, and the *)
(* Connection Registry handler over the connections store.                 *)
(*                                                                         *)
(* Every handler is a sequence of steps, one step per call to a            *)
(* collaborator (store, topic, generation service, push transport); the    *)
(* code between two calls belongs to the step of the call that precedes    *)
(* it.  Each call either succeeds or raises; the number of raised calls in *)
(* one behaviour is bounded by MaxFaults.  Timestamp attributes            *)
(* (created_at, updated_at, processing_started_at, processed_at) are not   *)
(* part of the items the handlers write here; the stamping of updated_at   *)
(* is modelled where the store adapter is applied on its own               *)
(* (SpecFunctions, which applies single functions to bounded inputs).      *)
(***************************************************************************)
EXTENDS Integers, Sequences, FiniteSets, TLC

\* ------------------------------------------------------------------ bounds
MaxInvocations == 3
MaxFaults == 2
MaxClock == 3
MAX_QUESTION_LEN == 2000

Slots == {1, 2}

\* ----------------------------------------------------------------- strings
\* A string is `lead` blanks, a body of n characters that neither starts nor
\* ends with a blank (n = 0 iff the body is empty), and `trail` blanks.
Str(b, n) == [lead |-> 0, body |-> b, n |-> n, trail |-> 0]

EmptyStr == Str("", 0)

Pad(s, l, t) == [s EXCEPT !.lead = l, !.trail = t]

StrLen(s) == s.lead + s.n + s.trail

\* str.strip()
Strip(s) == IF s.n = 0 THEN EmptyStr ELSE Pad(s, 0, 0)

\* truthiness of a str
Truthy(s) == StrLen(s) > 0

STATUS_PENDING == "pending"
STATUS_PROCESSING == "processing"
STATUS_COMPLETED == "completed"
STATUS_ERROR == "error"

QuestionStatus == {STATUS_PENDING, STATUS_PROCESSING, STATUS_COMPLETED, STATUS_ERROR}

\* --------------------------------------------------------------- variables
VARIABLES
    questions,      \* question table: key <<user_id, question_id>> -> item
    connections,    \* connections table: user_id -> connection_id
    processTopic,   \* messages published to the process topic, in order
    notifyTopic,    \* messages published to the notify topic, in order
    inv,            \* per slot: the invocation running or last run there
    nInv,           \* invocations started so far
    nFaults         \* collaborator calls that raised so far

vars == <<questions, connections, processTopic, notifyTopic, inv, nInv, nFaults>>

\* ------------------------------------------------------------- invocations
Idle == [h |-> "none", pc |-> "idle", ev |-> <<>>, loc |-> <<>>, log |-> <<>>,
         resp |-> [kind |-> "none"]]

Free(s) == inv[s].pc \in {"idle", "done"}

\* A new invocation starts in a slot in which none is in flight.  Where the
\* handlers run one after another every invocation runs in slot 1; where they
\* run concurrently both slots are used.
CanStart(s) == nInv < MaxInvocations /\ Free(s)

Sequential == {1}

\* A call outcome is "ok" or the text of the exception it raised.
ErrTexts == {"E1"}

Outcomes == {"ok"} \cup ErrTexts

\* The calls at which two failures are told apart by their text (the first
\* store call of Ingest and of Notify, the generation call of Process) may
\* raise with a second text as well.
OtherText == "E2"

OutcomesWithText == Outcomes \cup {OtherText}

Raises(out) == out # "ok"

MayRaise(out) == Raises(out) => nFaults < MaxFaults

CountFault(out) == nFaults' = IF Raises(out) THEN nFaults + 1 ELSE nFaults

Call(op, arg, out) == [op |-> op, arg |-> arg, out |-> out]

\* APISuccessResponse / APIErrorResponse; code is the HTTP status, 0 when the
\* response is not an HTTP response.
Success(code, data) == [kind |-> "success", code |-> code, data |-> data]

Error(code, text) == [kind |-> "error", code |-> code, error |-> text]

\* The exception left the handler.
Raised(text) == [kind |-> "raised", error |-> text]

Finish(s, log, resp) ==
    inv' = [inv EXCEPT ![s] = [@ EXCEPT !.pc = "done", !.log = log, !.resp = resp]]

FinishAt(s, loc, log, resp) ==
    inv' = [inv EXCEPT ![s] = [@ EXCEPT !.pc = "done", !.loc = loc, !.log = log,
                                        !.resp = resp]]

Goto(s, pc, loc, log) ==
    inv' = [inv EXCEPT ![s] = [@ EXCEPT !.pc = pc, !.loc = loc, !.log = log]]

\* ---------------------------------------------------------- question store
Key(user_id, question_id) == <<user_id, question_id>>

\* table.get_item: the item, or none.
NoItem == [none |-> TRUE]

GetItem(table, key) == IF key \in DOMAIN table THEN table[key] ELSE NoItem

Merge(item, upd) ==
    [a \in DOMAIN item \cup DOMAIN upd |-> IF a \in DOMAIN upd THEN upd[a] ELSE item[a]]

\* table.put_item: unconditional write of the whole item.
PutItem(table, key, item) ==
    [k \in DOMAIN table \cup {key} |-> IF k = key THEN item ELSE table[k]]

\* table.update_item with a SET expression and no condition: the attributes
\* are set on the item at the key, which is created when it does not exist.
UpdateItem(table, key, upd) ==
    PutItem(table, key,
            IF key \in DOMAIN table THEN Merge(table[key], upd)
            ELSE Merge([PK |-> key[1], SK |-> key[2]], upd))

DeleteItem(table, key) == [k \in DOMAIN table \ {key} |-> table[k]]

\* --------------------------------------------------------- Ingest handler
\* Mutant: the value is not stripped before it is tested.
not_empty_unstripped(v) == Truthy(v)

\* QuestionRequest.not_empty: the stripped value, or a validation error.
not_empty_ok(v) == Truthy(v) /\ Truthy(Strip(v))

\* Mutant: the bound off by one.
max_length_off_by_one(v) == ~(StrLen(v) > MAX_QUESTION_LEN + 1)

\* QuestionRequest.max_length, applied to the value not_empty returned.
max_length_ok(v) == ~(StrLen(v) > MAX_QUESTION_LEN)

validate_question_input(body) ==
    IF /\ "user_id" \in body.has
       /\ "question" \in body.has
       /\ not_empty_ok(body.user_id)
       /\ not_empty_ok(body.question)
       /\ max_length_ok(Strip(body.question))
    THEN [ok |-> TRUE, user_id |-> Strip(body.user_id), question |-> Strip(body.question)]
    ELSE [ok |-> FALSE, error |-> "ValidationError"]

Body(has, user_id, question) ==
    [json_ok |-> TRUE, has |-> has, user_id |-> user_id, question |-> question]

U1 == Str("u1", 2)
U2 == Str("u2", 2)
Q1 == Str("q1", 2)
Q2 == Str("q2", 2)
QIds == {Q1, Q2}

Text(n) == Str("text", n)

IngestBodies ==
    { Body({"user_id", "question"}, U1, Text(5)),
      Body({"user_id", "question"}, Pad(U1, 1, 1), Text(MAX_QUESTION_LEN)),
      Body({"user_id", "question"}, U1, Pad(Text(MAX_QUESTION_LEN), 0, 1)),
      Body({"user_id", "question"}, U1, Text(MAX_QUESTION_LEN + 1)),
      Body({"user_id", "question"}, U1, Pad(EmptyStr, 2, 0)),
      Body({"user_id", "question"}, EmptyStr, Text(5)),
      Body({"question"}, EmptyStr, Text(5)),
      Body({"user_id"}, U1, EmptyStr),
      [Body({}, EmptyStr, EmptyStr) EXCEPT !.json_ok = FALSE] }

\* lambda_handler up to the first collaborator call: obtain the clients,
\* parse the body, validate it.
IngestStart(s, body, clients) ==
    /\ CanStart(s)
    /\ MayRaise(clients)
    /\ CountFault(clients)
    /\ nInv' = nInv + 1
    /\ LET v == validate_question_input(body)
           start == [h |-> "ingest", pc |-> "save", ev |-> body, loc |-> <<>>,
                     log |-> <<Call("clients", <<>>, clients)>>, resp |-> [kind |-> "none"]]
       IN  inv' = [inv EXCEPT ![s] =
              IF Raises(clients) \/ ~body.json_ok
                  THEN [start EXCEPT !.pc = "done",
                                     !.resp = Error(500, "Internal server error.")]
              ELSE IF ~v.ok
                  THEN [start EXCEPT !.pc = "done", !.resp = Error(400, v.error)]
              ELSE [start EXCEPT !.loc = [user_id |-> v.user_id, question |-> v.question,
                                          question_id |-> EmptyStr]]]
    /\ UNCHANGED <<questions, connections, processTopic, notifyTopic>>

\* Mutant: the item is created in status processing.
NewItem_processing(user_id, question_id, question_text) ==
    [PK |-> user_id, SK |-> question_id,
     user_id |-> user_id, question_id |-> question_id,
     question |-> question_text, status |-> STATUS_PROCESSING]

\* DynamoDBClient._save_question_internal
NewItem(user_id, question_id, question_text) ==
    [PK |-> user_id, SK |-> question_id,
     user_id |-> user_id, question_id |-> question_id,
     question |-> question_text, status |-> STATUS_PENDING]

\* uuid.uuid4(): an identifier no item of the table carries.
FreshIds == {q \in QIds : \A k \in DOMAIN questions : k[2] # q}

\* _process_question_request: db_client.save_question
IngestSave(s, out) ==
    /\ inv[s].h = "ingest" /\ inv[s].pc = "save"
    /\ MayRaise(out)
    /\ CountFault(out)
    /\ \E question_id \in FreshIds :
         LET l == inv[s].loc
             key == Key(l.user_id, question_id)
             item == NewItem(l.user_id, question_id, l.question)
             log == Append(inv[s].log, Call("put_item", [key |-> key, item |-> item], out))
         IN  IF Raises(out)
             THEN /\ Finish(s, log, Error(500, "Internal server error."))
                  /\ UNCHANGED questions
             ELSE /\ questions' = PutItem(questions, key, item)
                  /\ Goto(s, "publish", [l EXCEPT !.question_id = question_id], log)
    /\ UNCHANGED <<connections, processTopic, notifyTopic, nInv>>

\* SNSQuestionEvent(...).model_dump(), and the message send_notification builds.
Message(user_id, question_id, status) ==
    [user_id |-> user_id, question_id |-> question_id, status |-> status]

\* _process_question_request: process_topic.publish, then the response.
IngestPublish(s, out) ==
    /\ inv[s].h = "ingest" /\ inv[s].pc = "publish"
    /\ MayRaise(out)
    /\ CountFault(out)
    /\ LET l == inv[s].loc
           msg == Message(l.user_id, l.question_id, STATUS_PENDING)
           log == Append(inv[s].log, Call("publish_process", msg, out))
       IN  IF Raises(out)
           THEN /\ Finish(s, log, Error(500, "Internal server error."))
                /\ UNCHANGED processTopic
           ELSE /\ processTopic' = Append(processTopic, msg)
                /\ Finish(s, log, Success(200, msg))
    /\ UNCHANGED <<questions, connections, notifyTopic, nInv>>

\* -------------------------------------------------------- Process handler
\* An inbound event: bare, or wrapped in a pub/sub record whose Message is
\* the serialized payload (json_ok: the Message parses).  The envelope is
\* "sns" for a record with EventSource aws:sns and "record" for a record with
\* another EventSource or none; the wrapping event itself carries no field.
Event(envelope, has, user_id, question_id, status) ==
    [envelope |-> envelope, json_ok |-> TRUE, has |-> has,
     user_id |-> user_id, question_id |-> question_id, status |-> status]

AllFields == {"user_id", "question_id", "status"}

ProcessEvents ==
    { Event("sns", AllFields, U1, Q1, STATUS_PENDING),
      Event("bare", AllFields, U1, Q2, STATUS_PENDING),
      Event("sns", AllFields, U2, Q1, STATUS_PENDING),
      Event("sns", {"question_id", "status"}, EmptyStr, Q1, STATUS_PENDING),
      Event("bare", {"user_id"}, U1, EmptyStr, STATUS_PENDING),
      Event("bare", AllFields, EmptyStr, Q1, STATUS_PENDING),
      [Event("sns", {}, EmptyStr, EmptyStr, STATUS_PENDING) EXCEPT !.json_ok = FALSE] }

\* What the transport hands to the subscribed handler for a published
\* message: the message serialized in a pub/sub record.
Delivery(msg) == Event("sns", AllFields, msg.user_id, msg.question_id, msg.status)

Deliveries(topic) == {Delivery(topic[i]) : i \in 1..Len(topic)}

\* process/handler.py parse_sns_message: the payload, or an error.
Process_parse_sns_message(event) ==
    IF event.envelope \in {"sns", "record"} /\ ~event.json_ok
    THEN [ok |-> FALSE, error |-> "Error processing message"]
    ELSE [ok |-> TRUE, has |-> event.has,
          user_id |-> event.user_id, question_id |-> event.question_id]

\* message.get(name), tested for truth
Present(message, name, value) == name \in message.has /\ Truthy(value)

\* lambda_handler up to the first store call: obtain the clients (outside
\* the try), unwrap the event, check the two fields.
ProcessStart(s, ev, clients) ==
    /\ CanStart(s)
    /\ ev \in ProcessEvents
    /\ MayRaise(clients)
    /\ CountFault(clients)
    /\ nInv' = nInv + 1
    /\ LET m == Process_parse_sns_message(ev)
           start == [h |-> "process", pc |-> "get", ev |-> ev, loc |-> <<>>,
                     log |-> <<Call("clients", <<>>, clients)>>, resp |-> [kind |-> "none"]]
       IN  inv' = [inv EXCEPT ![s] =
              IF Raises(clients)
                  THEN [start EXCEPT !.pc = "done", !.resp = Raised(clients)]
              ELSE IF ~m.ok
                  THEN [start EXCEPT !.pc = "done", !.resp = Error(0, m.error)]
              ELSE IF ~Present(m, "user_id", m.user_id) \/ ~Present(m, "question_id", m.question_id)
                  THEN [start EXCEPT !.pc = "done",
                                     !.resp = Error(0, "Missing required fields")]
              ELSE [start EXCEPT !.loc = [user_id |-> m.user_id, question_id |-> m.question_id,
                                          question_item |-> NoItem,
                                          question_text |-> EmptyStr,
                                          rag |-> <<>>, e |-> ""]]]
    /\ UNCHANGED <<questions, connections, processTopic, notifyTopic>>

\* Mutant: the except branch publishes the error notification without the
\* compensating write.
ProcessFail_no_write(s, log, text) ==
    Goto(s, "notify_error", [inv[s].loc EXCEPT !.e = text], log)

\* The except branch of lambda_handler: remember the failure, go on to the
\* compensating write (user_id and question_id are those of the event, both
\* present whenever a call has been reached).
ProcessFail(s, log, text) ==
    Goto(s, "error_update", [inv[s].loc EXCEPT !.e = text], log)

\* Mutant: a placeholder text when the item has none.
QuestionText_placeholder(item) ==
    IF "question" \in DOMAIN item THEN item.question ELSE Str("?", 1)

\* question_item.get("question", "")
QuestionText(item) == IF "question" \in DOMAIN item THEN item.question ELSE EmptyStr

\* db_client.get_question and the two checks on its result.
ProcessGet(s, out) ==
    /\ inv[s].h = "process" /\ inv[s].pc = "get"
    /\ MayRaise(out)
    /\ CountFault(out)
    /\ LET l == inv[s].loc
           key == Key(l.user_id, l.question_id)
           item == GetItem(questions, key)
           log == Append(inv[s].log, Call("get_item", key, out))
           got == [l EXCEPT !.question_item = item, !.question_text = QuestionText(item)]
       IN  IF Raises(out) THEN ProcessFail(s, log, out)
           ELSE IF item = NoItem THEN FinishAt(s, got, log, Error(0, "Question not found"))
           ELSE IF ~Truthy(QuestionText(item))
                THEN FinishAt(s, got, log, Error(0, "Question text not found in DynamoDB item"))
           ELSE Goto(s, "processing", got, log)
    /\ UNCHANGED <<questions, connections, processTopic, notifyTopic, nInv>>

\* Mutant: the status written is the one the entity is created with.
update_question_status_pending(status) == [status |-> STATUS_PENDING]

\* update_question_status(db_client, user_id, question_id, STATUS_PROCESSING)
update_question_status(status) == [status |-> status]

ProcessMarkProcessing(s, out) ==
    /\ inv[s].h = "process" /\ inv[s].pc = "processing"
    /\ MayRaise(out)
    /\ CountFault(out)
    /\ LET l == inv[s].loc
           key == Key(l.user_id, l.question_id)
           upd == update_question_status(STATUS_PROCESSING)
           log == Append(inv[s].log, Call("update_item", [key |-> key, upd |-> upd], out))
       IN  IF Raises(out)
           THEN ProcessFail(s, log, out) /\ UNCHANGED questions
           ELSE /\ questions' = UpdateItem(questions, key, upd)
                /\ Goto(s, "generate", l, log)
    /\ UNCHANGED <<connections, processTopic, notifyTopic, nInv>>

\* What the generation service returns on success.
Source(document_id) == [document_id |-> document_id, excerpt |-> "x"]

GenResults ==
    { [answer |-> "a1", sources |-> <<Source("d1")>>, found_relevant_docs |-> TRUE],
      [answer |-> "a2", sources |-> <<>>, found_relevant_docs |-> FALSE] }

\* bedrock_client.retrieve_and_generate(question_text)
ProcessGenerate(s, out, r) ==
    /\ inv[s].h = "process" /\ inv[s].pc = "generate"
    /\ MayRaise(out)
    /\ CountFault(out)
    /\ LET l == inv[s].loc
           log == Append(inv[s].log, Call("retrieve_and_generate", l.question_text, out))
       IN  IF Raises(out) THEN ProcessFail(s, log, out)
           ELSE Goto(s, "completed", [l EXCEPT !.rag = r], log)
    /\ UNCHANGED <<questions, connections, processTopic, notifyTopic, nInv>>

\* [source.get("document_id", source) for source in sources]
sources_list(sources) == [i \in 1..Len(sources) |-> sources[i].document_id]

\* Mutant: the answer is read under a key the result does not have.
CompletedUpdate_no_answer(rag) ==
    [status |-> STATUS_COMPLETED, answer |-> "",
     sources |-> sources_list(rag.sources),
     found_relevant_docs |-> rag.found_relevant_docs]

\* The update_dict of the completed write.
CompletedUpdate(rag) ==
    [status |-> STATUS_COMPLETED, answer |-> rag.answer,
     sources |-> sources_list(rag.sources),
     found_relevant_docs |-> rag.found_relevant_docs]

ProcessStoreAnswer(s, out) ==
    /\ inv[s].h = "process" /\ inv[s].pc = "completed"
    /\ MayRaise(out)
    /\ CountFault(out)
    /\ LET l == inv[s].loc
           key == Key(l.user_id, l.question_id)
           upd == CompletedUpdate(l.rag)
           log == Append(inv[s].log, Call("update_item", [key |-> key, upd |-> upd], out))
       IN  IF Raises(out)
           THEN ProcessFail(s, log, out) /\ UNCHANGED questions
           ELSE /\ questions' = UpdateItem(questions, key, upd)
                /\ Goto(s, "notify_completed", l, log)
    /\ UNCHANGED <<connections, processTopic, notifyTopic, nInv>>

\* send_notification(notify_topic, user_id, question_id, COMPLETED), then the
\* success response.
ProcessNotifyCompleted(s, out) ==
    /\ inv[s].h = "process" /\ inv[s].pc = "notify_completed"
    /\ MayRaise(out)
    /\ CountFault(out)
    /\ LET l == inv[s].loc
           msg == Message(l.user_id, l.question_id, STATUS_COMPLETED)
           log == Append(inv[s].log, Call("publish_notify", msg, out))
       IN  IF Raises(out)
           THEN ProcessFail(s, log, out) /\ UNCHANGED notifyTopic
           ELSE /\ notifyTopic' = Append(notifyTopic, msg)
                /\ Finish(s, log, Success(0, msg))
    /\ UNCHANGED <<questions, connections, processTopic, nInv>>

\* Mutant: the error_dict without the message.
ErrorUpdate_no_message(e) == [status |-> STATUS_ERROR]

\* The error_dict of the compensating write.
ErrorUpdate(e) == [status |-> STATUS_ERROR, error_message |-> e]

\* Mutant: the response carries the text of the failure of the compensation
\* when there is one.
ProcessErrorResponse_secondary(e, update_error) ==
    Error(0, IF Raises(update_error) THEN update_error ELSE e)

\* return APIErrorResponse(error=str(e)): e is the failure of the main flow,
\* update_error the outcome of the compensation.
ProcessErrorResponse(e, update_error) == Error(0, e)

\* except branch: db_client.update_question(user_id, question_id, error_dict);
\* when it raises, the failure is logged and the handler returns.
ProcessStoreError(s, out) ==
    /\ inv[s].h = "process" /\ inv[s].pc = "error_update"
    /\ MayRaise(out)
    /\ CountFault(out)
    /\ LET l == inv[s].loc
           key == Key(l.user_id, l.question_id)
           upd == ErrorUpdate(l.e)
           log == Append(inv[s].log, Call("update_item", [key |-> key, upd |-> upd], out))
       IN  IF Raises(out)
           THEN Finish(s, log, ProcessErrorResponse(l.e, out)) /\ UNCHANGED questions
           ELSE /\ questions' = UpdateItem(questions, key, upd)
                /\ Goto(s, "notify_error", l, log)
    /\ UNCHANGED <<connections, processTopic, notifyTopic, nInv>>

\* except branch: send_notification(..., ERROR), then the error response
\* carrying the text of the first failure.
ProcessNotifyError(s, out) ==
    /\ inv[s].h = "process" /\ inv[s].pc = "notify_error"
    /\ MayRaise(out)
    /\ CountFault(out)
    /\ LET l == inv[s].loc
           msg == Message(l.user_id, l.question_id, STATUS_ERROR)
           log == Append(inv[s].log, Call("publish_notify", msg, out))
       IN  /\ notifyTopic' = IF Raises(out) THEN notifyTopic ELSE Append(notifyTopic, msg)
           /\ Finish(s, log, ProcessErrorResponse(l.e, out))
    /\ UNCHANGED <<questions, connections, processTopic, nInv>>

\* --------------------------------------------------------- Notify handler
NotifyEvents ==
    { Event("sns", AllFields, U1, Q1, STATUS_COMPLETED),
      Event("bare", AllFields, Pad(U1, 1, 0), Q1, STATUS_ERROR),
      Event("sns", {"user_id", "question_id"}, U1, Q2, STATUS_PENDING),
      Event("bare", AllFields, U2, Q1, STATUS_ERROR),
      Event("bare", AllFields, U1, Q1, "unknown"),
      Event("sns", {"user_id", "status"}, U1, EmptyStr, STATUS_COMPLETED),
      [Event("sns", {}, EmptyStr, EmptyStr, STATUS_PENDING) EXCEPT !.json_ok = FALSE] }

\* SNSQuestionEvent.not_empty
SNS_not_empty_ok(v) == Truthy(v) /\ Truthy(Strip(v))

\* lib/core/validation.py parse_sns_message: the validated SNSQuestionEvent,
\* or an error.
parse_sns_message(event) ==
    IF \/ event.envelope = "sns" /\ ~event.json_ok
       \/ event.envelope = "record"
       \/ ~("user_id" \in event.has /\ SNS_not_empty_ok(event.user_id))
       \/ ~("question_id" \in event.has /\ SNS_not_empty_ok(event.question_id))
       \/ "status" \in event.has /\ event.status \notin QuestionStatus
    THEN [ok |-> FALSE, error |-> "ValidationError"]
    ELSE [ok |-> TRUE, user_id |-> Strip(event.user_id),
          question_id |-> Strip(event.question_id),
          status |-> IF "status" \in event.has THEN event.status ELSE "None"]

\* lambda_handler up to the first store call: obtain the store client, parse
\* the event (both inside the try).
NotifyStart(s, ev, client) ==
    /\ CanStart(s)
    /\ ev \in NotifyEvents \cup Deliveries(notifyTopic)
    /\ MayRaise(client)
    /\ CountFault(client)
    /\ nInv' = nInv + 1
    /\ LET m == parse_sns_message(ev)
           start == [h |-> "notify", pc |-> "get", ev |-> ev, loc |-> <<>>,
                     log |-> <<Call("clients", <<>>, client)>>, resp |-> [kind |-> "none"]]
       IN  inv' = [inv EXCEPT ![s] =
              IF Raises(client)
                  THEN [start EXCEPT !.pc = "done", !.resp = Error(0, client)]
              ELSE IF ~m.ok
                  THEN [start EXCEPT !.pc = "done", !.resp = Error(0, m.error)]
              ELSE [start EXCEPT !.loc =
                      [user_id |-> m.user_id, question_id |-> m.question_id,
                       status |-> IF m.status = "None" THEN STATUS_PENDING ELSE m.status,
                       question_data |-> NoItem, connection_id |-> "", payload |-> <<>>]]]
    /\ UNCHANGED <<questions, connections, processTopic, notifyTopic>>

\* The response of lambda_handler after publish_notification_to_websocket.
NotifyResponse(l, websocket_sent) ==
    Success(0, [user_id |-> l.user_id, question_id |-> l.question_id,
                status |-> l.status, notification_sent |-> websocket_sent])

\* question_data = db_client.get_question(user_id, question_id)
NotifyGet(s, out) ==
    /\ inv[s].h = "notify" /\ inv[s].pc = "get"
    /\ MayRaise(out)
    /\ CountFault(out)
    /\ LET l == inv[s].loc
           key == Key(l.user_id, l.question_id)
           log == Append(inv[s].log, Call("get_item", key, out))
       IN  IF Raises(out) THEN Finish(s, log, Error(0, out))
           ELSE Goto(s, "connection", [l EXCEPT !.question_data = GetItem(questions, key)], log)
    /\ UNCHANGED <<questions, connections, processTopic, notifyTopic, nInv>>

Attr(item, name, default) == IF name \in DOMAIN item THEN item[name] ELSE default

\* The payload publish_notification_to_websocket builds; question_data.get on
\* a missing item raises.
Payload(question_id, status, question_data) ==
    LET base == [type |-> "question_update", question_id |-> question_id, status |-> status]
    IN  IF status = STATUS_COMPLETED /\ question_data # NoItem
        THEN [ok |-> TRUE,
              payload |-> Merge(base, [answer |-> Attr(question_data, "answer", ""),
                                       sources |-> Attr(question_data, "sources", <<>>),
                                       question |-> Attr(question_data, "question", EmptyStr)])]
        ELSE IF status = STATUS_ERROR
        THEN IF question_data = NoItem
             THEN [ok |-> FALSE]
             ELSE [ok |-> TRUE,
                   payload |-> Merge(base, [error_message |->
                                  Attr(question_data, "error_message", "Unknown error")])]
        ELSE [ok |-> TRUE, payload |-> base]

\* Mutant: a default connection when the user has no record.
connection_id_default(item) == IF item = NoItem THEN "c1" ELSE item.connection_id

\* response.get("Item", {}).get("connection_id"); "" stands for None.
connection_id_of(item) == IF item = NoItem THEN "" ELSE item.connection_id

\* publish_notification_to_websocket: connections_table.get_item and the
\* construction of the payload.  Any exception here makes it return False.
NotifyLookup(s, out) ==
    /\ inv[s].h = "notify" /\ inv[s].pc = "connection"
    /\ MayRaise(out)
    /\ CountFault(out)
    /\ LET l == inv[s].loc
           log == Append(inv[s].log, Call("get_connection", l.user_id, out))
           connection_id == connection_id_of(GetItem(connections, l.user_id))
           p == Payload(l.question_id, l.status, l.question_data)
       IN  IF Raises(out) \/ connection_id = ""
           THEN Finish(s, log, NotifyResponse(l, FALSE))
           ELSE IF ~p.ok
           THEN FinishAt(s, [l EXCEPT !.connection_id = connection_id], log,
                         NotifyResponse(l, FALSE))
           ELSE Goto(s, "push", [l EXCEPT !.connection_id = connection_id,
                                          !.payload = p.payload], log)
    /\ UNCHANGED <<questions, connections, processTopic, notifyTopic, nInv>>

GoneException == "GoneException"

\* Mutant: every failure of the push is taken for a gone indication.
IsGone_always(text) == TRUE

\* Mutant: the gone indication is never recognised.
IsGone_never(text) == FALSE

\* "GoneException" in str(e)
IsGone(text) == text = GoneException

\* publish_notification_to_websocket: api_client.post_to_connection
NotifyPush(s, out) ==
    /\ inv[s].h = "notify" /\ inv[s].pc = "push"
    /\ MayRaise(out)
    /\ CountFault(out)
    /\ LET l == inv[s].loc
           log == Append(inv[s].log,
                         Call("post_to_connection",
                              [connection_id |-> l.connection_id, payload |-> l.payload], out))
       IN  IF ~Raises(out) THEN Goto(s, "record", l, log)
           ELSE IF IsGone(out) THEN Goto(s, "cleanup", l, log)
           ELSE Finish(s, log, NotifyResponse(l, FALSE))
    /\ UNCHANGED <<questions, connections, processTopic, notifyTopic, nInv>>

\* publish_notification_to_websocket: connections_table.delete_item for the
\* user whose connection is gone; a failure of the delete is swallowed.
NotifyCleanup(s, out) ==
    /\ inv[s].h = "notify" /\ inv[s].pc = "cleanup"
    /\ MayRaise(out)
    /\ CountFault(out)
    /\ LET l == inv[s].loc
           log == Append(inv[s].log, Call("delete_connection", l.user_id, out))
       IN  /\ connections' = IF Raises(out) THEN connections
                             ELSE DeleteItem(connections, l.user_id)
           /\ Finish(s, log, NotifyResponse(l, FALSE))
    /\ UNCHANGED <<questions, processTopic, notifyTopic, nInv>>

\* Mutant: the notification_update carries the status of the event as well.
NotificationUpdate_with_status ==
    [notification_sent |-> TRUE, notification_details |-> [realtime_sent |-> TRUE],
     status |-> STATUS_COMPLETED]

\* The notification_update written after a successful push.
NotificationUpdate == [notification_sent |-> TRUE, notification_details |-> [realtime_sent |-> TRUE]]

\* lambda_handler: db_client.update_question(user_id, question_id,
\* notification_update), then the response.
NotifyRecord(s, out) ==
    /\ inv[s].h = "notify" /\ inv[s].pc = "record"
    /\ MayRaise(out)
    /\ CountFault(out)
    /\ LET l == inv[s].loc
           key == Key(l.user_id, l.question_id)
           log == Append(inv[s].log,
                         Call("update_item", [key |-> key, upd |-> NotificationUpdate], out))
       IN  IF Raises(out)
           THEN Finish(s, log, Error(0, out)) /\ UNCHANGED questions
           ELSE /\ questions' = UpdateItem(questions, key, NotificationUpdate)
                /\ Finish(s, log, NotifyResponse(l, TRUE))
    /\ UNCHANGED <<connections, processTopic, notifyTopic, nInv>>

\* --------------------------------------------- Connection Registry handler
\* A connection-lifecycle event.  context_ok: requestContext carries
\* connectionId and routeKey; query_user_id / body_user_id: the user_id of the
\* query string / of the JSON body ("has" says which are there).
WsEvent(route, connection_id, has, user_id) ==
    [context_ok |-> TRUE, route |-> route, connection_id |-> connection_id,
     has |-> has, user_id |-> user_id]

WsEvents ==
    { WsEvent("$connect", "c1", {"query"}, U1),
      WsEvent("$connect", "c2", {"query"}, U1),
      WsEvent("$connect", "c1", {"query"}, U2),
      WsEvent("$connect", "c2", {}, EmptyStr),
      WsEvent("$disconnect", "c1", {}, EmptyStr),
      WsEvent("$disconnect", "c2", {}, EmptyStr),
      WsEvent("register", "c2", {"body"}, U2),
      WsEvent("register", "c1", {"body"}, EmptyStr),
      WsEvent("register", "c1", {"query"}, U1),
      WsEvent("message", "c1", {"query", "body"}, U1),
      [WsEvent("$connect", "c1", {"query"}, U1) EXCEPT !.context_ok = FALSE] }

\* get_user_id(event), tested for truth
get_user_id(event) == IF "query" \in event.has THEN event.user_id ELSE EmptyStr

\* Mutant: the user_id is taken from wherever the event carries it.
get_body_user_id_anywhere(event) == event.user_id

\* get_body_user_id(event), tested for truth
get_body_user_id(event) == IF "body" \in event.has THEN event.user_id ELSE EmptyStr

Http(code, body) == [kind |-> "http", code |-> code, body |-> body]

ConnectionItem(user_id, connection_id) == [user_id |-> user_id, connection_id |-> connection_id]

\* lambda_handler up to the first call on the table: read the connection id
\* and the route, obtain the table (all outside the try), dispatch.
WsStart(s, ev, table) ==
    /\ CanStart(s)
    /\ ev \in WsEvents
    /\ MayRaise(table)
    /\ CountFault(table)
    /\ nInv' = nInv + 1
    /\ LET start == [h |-> "websocket", pc |-> "done", ev |-> ev,
                     loc |-> [connection_id |-> ev.connection_id, user_id |-> EmptyStr,
                              items |-> {}, body |-> ""],
                     log |-> <<Call("clients", <<>>, table)>>, resp |-> [kind |-> "none"]]
           To(pc, user_id, body) ==
               [start EXCEPT !.pc = pc, !.loc.user_id = user_id, !.loc.body = body]
       IN  inv' = [inv EXCEPT ![s] =
              IF ~ev.context_ok THEN [start EXCEPT !.resp = Raised("KeyError")]
              ELSE IF Raises(table) THEN [start EXCEPT !.resp = Raised(table)]
              ELSE IF ev.route = "$connect"
                  THEN IF Truthy(get_user_id(ev))
                       THEN To("put", get_user_id(ev), "Connected")
                       ELSE [start EXCEPT !.resp = Http(200, "Connected")]
              ELSE IF ev.route = "$disconnect" THEN To("scan", EmptyStr, "Disconnected")
              ELSE IF ev.route = "register"
                  THEN IF Truthy(get_body_user_id(ev))
                       THEN To("put", get_body_user_id(ev), "User registered")
                       ELSE [start EXCEPT !.resp = Http(400, "user_id is required")]
              ELSE [start EXCEPT !.resp = Http(404, "Route not implemented")]]
    /\ UNCHANGED <<questions, connections, processTopic, notifyTopic>>

\* $connect / register: connections_table.put_item
WsPut(s, out) ==
    /\ inv[s].h = "websocket" /\ inv[s].pc = "put"
    /\ MayRaise(out)
    /\ CountFault(out)
    /\ LET l == inv[s].loc
           item == ConnectionItem(l.user_id, l.connection_id)
           log == Append(inv[s].log, Call("put_connection", item, out))
       IN  IF Raises(out)
           THEN Finish(s, log, Http(500, out)) /\ UNCHANGED connections
           ELSE /\ connections' = PutItem(connections, l.user_id, item)
                /\ Finish(s, log, Http(200, l.body))
    /\ UNCHANGED <<questions, processTopic, notifyTopic, nInv>>

\* Mutant: the scan stops at the first match.
Scan_first(table, connection_id) ==
    LET all == {u \in DOMAIN table : table[u].connection_id = connection_id}
    IN  IF all = {} THEN {} ELSE {CHOOSE u \in all : TRUE}

\* $disconnect: connections_table.scan with connection_id = :conn_id
Scan(table, connection_id) == {u \in DOMAIN table : table[u].connection_id = connection_id}

WsScan(s, out) ==
    /\ inv[s].h = "websocket" /\ inv[s].pc = "scan"
    /\ MayRaise(out)
    /\ CountFault(out)
    /\ LET l == inv[s].loc
           items == Scan(connections, l.connection_id)
           log == Append(inv[s].log, Call("scan", l.connection_id, out))
       IN  IF Raises(out) THEN Finish(s, log, Http(500, out))
           ELSE IF items = {} THEN Finish(s, log, Http(200, l.body))
           ELSE Goto(s, "delete", [l EXCEPT !.items = items], log)
    /\ UNCHANGED <<questions, connections, processTopic, notifyTopic, nInv>>

\* $disconnect: one turn of the loop over the scanned items,
\* connections_table.delete_item(Key={"user_id": user_id})
WsDelete(s, out) ==
    /\ inv[s].h = "websocket" /\ inv[s].pc = "delete"
    /\ MayRaise(out)
    /\ CountFault(out)
    /\ \E user_id \in inv[s].loc.items :
         LET l == inv[s].loc
             rest == l.items \ {user_id}
             log == Append(inv[s].log, Call("delete_connection", user_id, out))
         IN  IF Raises(out)
             THEN Finish(s, log, Http(500, out)) /\ UNCHANGED connections
             ELSE /\ connections' = DeleteItem(connections, user_id)
                  /\ IF rest = {} THEN Finish(s, log, Http(200, l.body))
                     ELSE Goto(s, "delete", [l EXCEPT !.items = rest], log)
    /\ UNCHANGED <<questions, processTopic, notifyTopic, nInv>>

\* ----------------------------------------------------------- specification
EmptyTable == [k \in {} |-> NoItem]

Init ==
    /\ questions = EmptyTable
    /\ connections = EmptyTable
    /\ processTopic = <<>>
    /\ notifyTopic = <<>>
    /\ inv = [s \in Slots |-> Idle]
    /\ nInv = 0
    /\ nFaults = 0

Next ==
    \E s \in Sequential :
        \/ \E body \in IngestBodies, out \in Outcomes : IngestStart(s, body, out)
        \/ \E out \in OutcomesWithText : IngestSave(s, out)
        \/ \E out \in Outcomes : IngestPublish(s, out)
        \/ \E ev \in ProcessEvents, out \in Outcomes : ProcessStart(s, ev, out)
        \/ \E out \in Outcomes : ProcessGet(s, out)
        \/ \E out \in Outcomes : ProcessMarkProcessing(s, out)
        \/ \E out \in OutcomesWithText, r \in GenResults : ProcessGenerate(s, out, r)
        \/ \E out \in Outcomes : ProcessStoreAnswer(s, out)
        \/ \E out \in Outcomes : ProcessNotifyCompleted(s, out)
        \/ \E out \in Outcomes : ProcessStoreError(s, out)
        \/ \E out \in Outcomes : ProcessNotifyError(s, out)
        \/ \E ev \in NotifyEvents, out \in Outcomes : NotifyStart(s, ev, out)
        \/ \E out \in OutcomesWithText : NotifyGet(s, out)
        \/ \E out \in Outcomes : NotifyLookup(s, out)
        \/ \E out \in Outcomes \cup {GoneException} : NotifyPush(s, out)
        \/ \E out \in Outcomes : NotifyCleanup(s, out)
        \/ \E out \in Outcomes : NotifyRecord(s, out)
        \/ \E ev \in WsEvents, out \in Outcomes : WsStart(s, ev, out)
        \/ \E out \in Outcomes : WsPut(s, out)
        \/ \E out \in Outcomes : WsScan(s, out)
        \/ \E out \in Outcomes : WsDelete(s, out)

Spec == Init /\ [][Next]_vars

\* ------------------------------------- concurrent registry and notification
\* Connection Registry and Notify invocations interleaved step by step: each
\* slot runs its own invocation, the steps of the two alternate freely.
RaceWsEvents ==
    { WsEvent("$connect", "c1", {"query"}, U1),
      WsEvent("$connect", "c2", {"query"}, U1),
      WsEvent("$disconnect", "c1", {}, EmptyStr),
      WsEvent("register", "c2", {"body"}, U2) }

RaceNotifyEvents == { Event("sns", {"user_id", "question_id"}, U1, Q2, STATUS_PENDING) }

NextRegistry ==
    \E s \in Slots :
        \/ \E ev \in RaceWsEvents, out \in Outcomes : WsStart(s, ev, out)
        \/ \E out \in Outcomes : WsPut(s, out)
        \/ \E out \in Outcomes : WsScan(s, out)
        \/ \E out \in Outcomes : WsDelete(s, out)
        \/ \E ev \in RaceNotifyEvents, out \in Outcomes : NotifyStart(s, ev, out)
        \/ \E out \in Outcomes : NotifyGet(s, out)
        \/ \E out \in Outcomes : NotifyLookup(s, out)
        \/ \E out \in Outcomes \cup {GoneException} : NotifyPush(s, out)
        \/ \E out \in Outcomes : NotifyCleanup(s, out)
        \/ \E out \in Outcomes : NotifyRecord(s, out)

SpecRegistry == Init /\ [][NextRegistry]_vars

\* --------------------------------------------------- at-least-once delivery
\* Process and Notify invocations triggered by the topics: a message that has
\* been published is delivered any number of times, in any order, to
\* invocations that run concurrently.  The store holds the entity Ingest
\* created for the process-event in the topic, and the registry the user's
\* connection; the calls on the store succeed, the generation, the publishes
\* and the push may fail.
InitDelivery ==
    /\ questions = PutItem(EmptyTable, Key(U1, Q1), NewItem(U1, Q1, Text(5)))
    /\ connections = PutItem(EmptyTable, U1, ConnectionItem(U1, "c1"))
    /\ processTopic = <<Message(U1, Q1, STATUS_PENDING)>>
    /\ notifyTopic = <<>>
    /\ inv = [s \in Slots |-> Idle]
    /\ nInv = 0
    /\ nFaults = 0

NextDelivery ==
    \E s \in Slots :
        \/ \E ev \in Deliveries(processTopic) : ProcessStart(s, ev, "ok")
        \/ ProcessGet(s, "ok")
        \/ ProcessMarkProcessing(s, "ok")
        \/ \E out \in Outcomes, r \in GenResults : ProcessGenerate(s, out, r)
        \/ ProcessStoreAnswer(s, "ok")
        \/ \E out \in Outcomes : ProcessNotifyCompleted(s, out)
        \/ ProcessStoreError(s, "ok")
        \/ \E out \in Outcomes : ProcessNotifyError(s, out)
        \/ \E ev \in Deliveries(notifyTopic) : NotifyStart(s, ev, "ok")
        \/ NotifyGet(s, "ok")
        \/ NotifyLookup(s, "ok")
        \/ \E out \in {"ok", GoneException} : NotifyPush(s, out)
        \/ NotifyCleanup(s, "ok")
        \/ NotifyRecord(s, "ok")

SpecDelivery == InitDelivery /\ [][NextDelivery]_vars

\* ------------------------------------------------- functions on their own
\* A function application runs in slot 1: h names the function, ev is its
\* input, resp its result.
Applying(fn) == inv[1].h = fn /\ inv[1].pc = "apply"

Application(fn, arg) == [Idle EXCEPT !.h = fn, !.pc = "apply", !.ev = arg]

Applied(loc, result) ==
    inv' = [inv EXCEPT ![1] = [@ EXCEPT !.pc = "done", !.loc = loc, !.resp = result]]

\* datetime.now(timezone.utc).isoformat(): a reading of the wall clock of the
\* host; readings are compared as the stored strings compare.
Clock == 1..MaxClock

\* Mutant: the adapter leaves updated_at to the caller.
update_question_unstamped(table, key, update_data, now) ==
    UpdateItem(table, key, update_data)

\* DynamoDBClient._update_question_internal: update_data["updated_at"] is
\* set to the clock reading, then every entry of update_data is SET.
update_question(table, key, update_data, now) ==
    UpdateItem(table, key, Merge(update_data, [updated_at |-> now]))

\* DynamoDBClient.get_question
get_question(table, key) == GetItem(table, key)

\* An entity as the store holds it: written by save_question at `created`,
\* last stamped at `updated`.
StoredItem(created, updated) ==
    Merge(NewItem(U1, Q1, Text(5)), [created_at |-> created, updated_at |-> updated])

StoredItems ==
    {StoredItem(c, u) : c \in Clock, u \in Clock}
    \cup {Merge(StoredItem(1, u), CompletedUpdate(r)) : u \in Clock, r \in GenResults}

\* The field mappings the handlers pass (update_question_status stamps its
\* own updated_at before the adapter does), and the empty one.
FieldMappings ==
    { update_question_status(STATUS_PROCESSING), ErrorUpdate("E1"), NotificationUpdate,
      [answer |-> "a2"], [x \in {} |-> 0] }
    \cup {CompletedUpdate(r) : r \in GenResults}
    \cup {Merge(update_question_status(STATUS_PROCESSING), [updated_at |-> t]) : t \in Clock}

\* The clock is read by the adapter after the handler built the mapping, on
\* the same host; the entity was stamped by whichever host mutated it last.
UpdateInputs ==
    {[item |-> i, update_data |-> m, now |-> n] :
        i \in StoredItems, m \in FieldMappings, n \in Clock}

ApplyUpdateQuestion ==
    /\ Applying("update_question")
    /\ LET a == inv[1].ev
           key == Key(a.item.PK, a.item.SK)
       IN  /\ questions' = update_question(questions, key, a.update_data, a.now)
           /\ Applied([before |-> get_question(questions, key)],
                      get_question(questions', key))
    /\ UNCHANGED <<connections, processTopic, notifyTopic, nInv, nFaults>>

\* What Process takes from an event: message.get("user_id") and
\* message.get("question_id") of the unwrapped message, both tested for truth.
Process_extract(event) ==
    LET m == Process_parse_sns_message(event)
    IN  IF m.ok /\ Present(m, "user_id", m.user_id) /\ Present(m, "question_id", m.question_id)
        THEN [ok |-> TRUE, user_id |-> m.user_id, question_id |-> m.question_id]
        ELSE [ok |-> FALSE]

\* What Notify takes from an event: sns_event.user_id, sns_event.question_id.
Notify_extract(event) ==
    LET m == parse_sns_message(event)
    IN  IF m.ok THEN [ok |-> TRUE, user_id |-> m.user_id, question_id |-> m.question_id]
        ELSE [ok |-> FALSE]

ParseInputs ==
    {[Event(envelope, has, user_id, question_id, status) EXCEPT !.json_ok = json_ok] :
        envelope \in {"bare", "sns", "record"},
        json_ok \in BOOLEAN,
        has \in {AllFields, {"user_id", "question_id"}, {"question_id", "status"}, {"user_id"}},
        user_id \in {U1, Pad(U1, 1, 0), Pad(EmptyStr, 2, 0), EmptyStr},
        question_id \in {Q1, Pad(Q1, 0, 1), EmptyStr},
        status \in {STATUS_PENDING, "unknown"}}

ApplyParse ==
    /\ Applying("parse_sns_message")
    /\ Applied(<<>>, [process |-> Process_extract(inv[1].ev),
                      notify |-> Notify_extract(inv[1].ev)])
    /\ UNCHANGED <<questions, connections, processTopic, notifyTopic, nInv, nFaults>>

\* A model identifier: a short profile id, or a fully-qualified reference
\* (the string starts with "arn:").
ShortId(id) == [arn |-> FALSE, region |-> "", account |-> "", id |-> id]

Arn(region, account, id) == [arn |-> TRUE, region |-> region, account |-> account, id |-> id]

\* `not value` for an optional str: None ("None") or the empty string.
Unset(value) == value \in {"None", ""}

\* Mutant: the account identifier is required whatever the model identifier.
get_inference_profile_arn_needs_account(profile_id, account, region) ==
    IF Unset(account)
    THEN [ok |-> FALSE, error |-> "Environment variable AWS_ACCOUNT_ID is not set."]
    ELSE [ok |-> TRUE,
          arn |-> IF profile_id.arn THEN profile_id ELSE Arn(region, account, profile_id.id)]

\* BedrockClient._get_inference_profile_arn; account is AWS_ACCOUNT_ID of the
\* environment, region the region of the service client.
get_inference_profile_arn(profile_id, account, region) ==
    IF profile_id.arn THEN [ok |-> TRUE, arn |-> profile_id]
    ELSE IF Unset(account)
    THEN [ok |-> FALSE, error |-> "Environment variable AWS_ACCOUNT_ID is not set."]
    ELSE [ok |-> TRUE, arn |-> Arn(region, account, profile_id.id)]

\* BedrockClient.retrieve_and_generate: the requests made to the
\* retrieval+generation service and the result, or the exception raised.
\* `out` and `r` are what the service does when it is called.
retrieve_and_generate(c, out, r) ==
    IF Unset(c.knowledge_base_id)
    THEN [calls |-> <<>>,
          resp |-> Raised("Knowledge Base ID not configured. Set KNOWLEDGE_BASE_ID.")]
    ELSE LET p == get_inference_profile_arn(c.inference_profile_id, c.account, c.region)
         IN  IF ~p.ok THEN [calls |-> <<>>, resp |-> Raised(p.error)]
             ELSE [calls |-> <<[text |-> c.query, knowledgeBaseId |-> c.knowledge_base_id,
                                modelArn |-> p.arn]>>,
                   resp |-> IF Raises(out) THEN Raised(out)
                            ELSE [kind |-> "result",
                                  data |-> Merge(r, [inference_profile_id |->
                                                        c.inference_profile_id])]]

GenerateInputs ==
    {[knowledge_base_id |-> kb, inference_profile_id |-> profile, account |-> account,
      region |-> "us-east-1", query |-> Text(5), out |-> out, r |-> r] :
        kb \in {"None", "", "kb1"},
        profile \in {ShortId("nova"), Arn("us-east-1", "123", "nova"),
                     Arn("eu-west-1", "999", "claude")},
        account \in {"None", "", "123"},
        out \in Outcomes,
        r \in GenResults}

ApplyRetrieveAndGenerate ==
    /\ Applying("retrieve_and_generate")
    /\ LET c == inv[1].ev
           x == retrieve_and_generate(c, c.out, c.r)
       IN  Applied([calls |-> x.calls], x.resp)
    /\ UNCHANGED <<questions, connections, processTopic, notifyTopic, nInv, nFaults>>

InitFunctions ==
    /\ connections = EmptyTable
    /\ processTopic = <<>>
    /\ notifyTopic = <<>>
    /\ nInv = 0
    /\ nFaults = 0
    /\ \/ \E a \in UpdateInputs :
             /\ "updated_at" \in DOMAIN a.update_data => a.update_data.updated_at <= a.now
             /\ questions = PutItem(EmptyTable, Key(a.item.PK, a.item.SK), a.item)
             /\ inv = [s \in Slots |-> IF s = 1 THEN Application("update_question", a)
                                                 ELSE Idle]
       \/ \E ev \in ParseInputs :
             /\ questions = EmptyTable
             /\ inv = [s \in Slots |-> IF s = 1 THEN Application("parse_sns_message", ev)
                                                 ELSE Idle]
       \/ \E c \in GenerateInputs :
             /\ questions = EmptyTable
             /\ inv = [s \in Slots |-> IF s = 1 THEN Application("retrieve_and_generate", c)
                                                 ELSE Idle]

NextFunctions ==
    \/ ApplyUpdateQuestion
    \/ ApplyParse
    \/ ApplyRetrieveAndGenerate

SpecFunctions == InitFunctions /\ [][NextFunctions]_vars

\* ------------------------------------------------------------------ claims
Done(s, h) == inv[s].h = h /\ inv[s].pc = "done"

\* No collaborator call of the invocation raised.
NoFault(log) == \A i \in 1..Len(log) : log[i].out = "ok"

\* Every call but those named op succeeded, and one named op raised.
OnlyFailed(log, op) ==
    /\ \A i \in 1..Len(log) : log[i].op # op => log[i].out = "ok"
    /\ \E i \in 1..Len(log) : log[i].op = op /\ log[i].out # "ok"

Ops(log) == [i \in 1..Len(log) |-> log[i].op]

CallsOf(log, ops) == SelectSeq(log, LAMBDA c : c.op \in ops)

NoCalls(log, ops) == CallsOf(log, ops) = <<>>

Forward ==
    { <<STATUS_PENDING, STATUS_PROCESSING>>,
      <<STATUS_PROCESSING, STATUS_COMPLETED>>,
      <<STATUS_PROCESSING, STATUS_ERROR>> }

\* C1: the stored status of an entity only moves forward along
\* pending -> processing -> completed | error, over every sequence of Ingest,
\* Process and Notify invocations, redelivered process-events included
\* (stated here for the behaviours in which no collaborator call fails).
C1_StatusOnlyMovesForward ==
    [][nFaults' = 0 =>
         \A k \in DOMAIN questions \cap DOMAIN questions' :
            ("status" \in DOMAIN questions[k] /\ "status" \in DOMAIN questions'[k]) =>
               \/ questions'[k].status = questions[k].status
               \/ <<questions[k].status, questions'[k].status>> \in Forward]_vars

\* The request is one validation accepts: both fields there, non-empty after
\* trimming, the question at most 2000 characters.
ValidRequest(body) == body.json_ok /\ validate_question_input(body).ok

\* C2: for a valid request (the store write and the publish succeeding),
\* Ingest stores one new entity with status pending under a question_id no
\* existing entity uses, publishes exactly one process-event
\* {user_id, question_id, pending} and returns 200 with the same three values.
C2_IngestStoresAndPublishes ==
    [][\A s \in Slots :
         /\ (inv[s].h = "ingest" /\ inv[s].pc = "save" /\ inv'[s].pc = "publish") =>
               LET l == inv'[s].loc
                   key == Key(l.user_id, l.question_id)
               IN  /\ \A k \in DOMAIN questions : k[2] # l.question_id
                   /\ DOMAIN questions' = DOMAIN questions \cup {key}
                   /\ \A k \in DOMAIN questions : questions'[k] = questions[k]
                   /\ questions'[key].status = STATUS_PENDING
                   /\ questions'[key].question = Strip(inv[s].ev.question)
         /\ (/\ inv'[s] # inv[s]
             /\ inv'[s].h = "ingest" /\ inv'[s].pc = "done"
             /\ ValidRequest(inv'[s].ev) /\ NoFault(inv'[s].log)) =>
               LET l == inv'[s].loc
                   msg == Message(Strip(inv'[s].ev.user_id), l.question_id, STATUS_PENDING)
               IN  /\ Ops(inv'[s].log) = <<"clients", "put_item", "publish_process">>
                   /\ processTopic' = Append(processTopic, msg)
                   /\ Key(msg.user_id, msg.question_id) \in DOMAIN questions'
                   /\ inv'[s].resp = Success(200, msg)]_vars

C2_Witness ==
    \E s \in Slots :
        /\ Done(s, "ingest") /\ inv[s].resp.kind = "success"
        /\ Len(processTopic) = 1
        /\ \E k \in DOMAIN questions : questions[k].status = STATUS_PENDING

\* The request lacks a field, or its question is too long (measured by len).
Lacking(body) == "user_id" \notin body.has \/ "question" \notin body.has

Rejected(s) ==
    /\ inv[s].resp = Error(400, "ValidationError")
    /\ NoCalls(inv[s].log, {"put_item", "publish_process"})

\* C3 as stated: a request that lacks user_id or question, or whose question
\* exceeds 2000 characters, gets a 400 with success=false, and Ingest performs
\* no store write and no publish.
C3_Original ==
    \A s \in Slots :
        (/\ Done(s, "ingest") /\ inv[s].ev.json_ok /\ NoFault(inv[s].log)
         /\ (Lacking(inv[s].ev) \/ StrLen(inv[s].ev.question) > MAX_QUESTION_LEN))
        => Rejected(s)

\* C3, amended: the same for a request that lacks user_id or question, or
\* whose question exceeds 2000 characters once surrounding whitespace is
\* trimmed.
C3_RejectsInvalid ==
    \A s \in Slots :
        (/\ Done(s, "ingest") /\ inv[s].ev.json_ok /\ NoFault(inv[s].log)
         /\ (Lacking(inv[s].ev) \/ StrLen(Strip(inv[s].ev.question)) > MAX_QUESTION_LEN))
        => Rejected(s)

C3_Witness ==
    \E s \in Slots :
        /\ Done(s, "ingest") /\ inv[s].resp.kind = "error" /\ inv[s].resp.code = 400
        /\ StrLen(Strip(inv[s].ev.question)) > MAX_QUESTION_LEN
        /\ questions # EmptyTable

\* The generation call of the invocation was made and succeeded.
Generated(log) == \E i \in 1..Len(log) : log[i].op = "retrieve_and_generate" /\ log[i].out = "ok"

\* C4: for a process-event on an existing entity whose generation call
\* succeeds (the store writes and the publish succeeding too), Process writes
\* status processing, calls the Generation Adapter with the stored question
\* text, writes status completed with the answer the adapter returned,
\* publishes exactly one notify-event with status completed, in that order,
\* and returns success.
C4_ProcessCompletes ==
    \A s \in Slots :
        (Done(s, "process") /\ NoFault(inv[s].log) /\ Generated(inv[s].log)) =>
            LET log == inv[s].log
                l == inv[s].loc
                key == Key(l.user_id, l.question_id)
            IN  /\ Ops(log) = <<"clients", "get_item", "update_item", "retrieve_and_generate",
                                "update_item", "publish_notify">>
                /\ l.question_item # NoItem
                /\ log[3].arg.key = key /\ log[3].arg.upd.status = STATUS_PROCESSING
                /\ log[4].arg = l.question_item.question
                /\ log[5].arg.key = key /\ log[5].arg.upd.status = STATUS_COMPLETED
                /\ log[5].arg.upd.answer = l.rag.answer
                /\ log[6].arg = Message(l.user_id, l.question_id, STATUS_COMPLETED)
                /\ questions[key].status = STATUS_COMPLETED
                /\ questions[key].answer = l.rag.answer
                /\ notifyTopic # <<>> /\ notifyTopic[Len(notifyTopic)] = log[6].arg
                /\ inv[s].resp.kind = "success"

C4_Witness ==
    \E s \in Slots :
        /\ Done(s, "process") /\ inv[s].resp.kind = "success"
        /\ Generated(inv[s].log)
        /\ \E k \in DOMAIN questions : questions[k].status = STATUS_COMPLETED

\* C5: when the Generation Adapter call fails during Process (the
\* compensating write and publish succeeding), the entity ends the invocation
\* with status error and a non-empty error_message, exactly one notify-event,
\* with status error, is published, and Process returns a structured error.
C5_GenerationFailure ==
    \A s \in Slots :
        (Done(s, "process") /\ OnlyFailed(inv[s].log, "retrieve_and_generate")) =>
            LET log == inv[s].log
                l == inv[s].loc
                key == Key(l.user_id, l.question_id)
                published == CallsOf(log, {"publish_notify"})
            IN  /\ key \in DOMAIN questions
                /\ questions[key].status = STATUS_ERROR
                /\ "error_message" \in DOMAIN questions[key]
                /\ questions[key].error_message # ""
                /\ Len(published) = 1
                /\ published[1].arg = Message(l.user_id, l.question_id, STATUS_ERROR)
                /\ notifyTopic # <<>> /\ notifyTopic[Len(notifyTopic)] = published[1].arg
                /\ inv[s].resp.kind = "error"

C5_Witness ==
    \E s \in Slots :
        /\ Done(s, "process") /\ OnlyFailed(inv[s].log, "retrieve_and_generate")
        /\ inv[s].resp.kind = "error"
        /\ \E k \in DOMAIN questions : questions[k].status = STATUS_ERROR

\* The cases in which Process rejects: a field of the event is missing, the
\* lookup found no entity, or the entity found has no question text.
MissingFields(ev) ==
    \/ ~("user_id" \in ev.has /\ Truthy(ev.user_id))
    \/ ~("question_id" \in ev.has /\ Truthy(ev.question_id))

LookedUp(s) == Len(inv[s].log) >= 2 /\ inv[s].log[2].op = "get_item"

NotFound(s) == LookedUp(s) /\ inv[s].loc.question_item = NoItem

NoQuestionText(s) ==
    /\ LookedUp(s) /\ inv[s].loc.question_item # NoItem
    /\ \/ "question" \notin DOMAIN inv[s].loc.question_item
       \/ ~Truthy(inv[s].loc.question_item.question)

\* C6: when the process-event lacks user_id or question_id, when no entity
\* exists for (user_id, question_id), or when the entity has no question
\* text, Process returns a structured error and performs no store write, no
\* generation call and no publish.
C6_ProcessRejects ==
    \A s \in Slots :
        (/\ Done(s, "process") /\ NoFault(inv[s].log)
         /\ ~(inv[s].ev.envelope = "sns" /\ ~inv[s].ev.json_ok)
         /\ (MissingFields(inv[s].ev) \/ NotFound(s) \/ NoQuestionText(s)))
        => /\ inv[s].resp.kind = "error"
           /\ NoCalls(inv[s].log, {"put_item", "update_item", "retrieve_and_generate",
                                   "publish_notify", "publish_process"})

C6_Witness ==
    \E s \in Slots :
        /\ Done(s, "process") /\ NoFault(inv[s].log) /\ NoQuestionText(s)
        /\ inv[s].resp.kind = "error"

HasAnswer(item) == "answer" \in DOMAIN item /\ "sources" \in DOMAIN item

\* C7: in every reachable state of the question store an entity has answer
\* and sources if and only if its status is completed, and has error_message
\* if and only if its status is error (stated here for the behaviours in
\* which no collaborator call fails).
C7_AnswerIffCompleted ==
    nFaults = 0 =>
        \A k \in DOMAIN questions :
            /\ HasAnswer(questions[k]) <=> Attr(questions[k], "status", "") = STATUS_COMPLETED
            /\ "error_message" \in DOMAIN questions[k]
                  <=> Attr(questions[k], "status", "") = STATUS_ERROR

\* The event is one Notify's parse accepts.
Parsed(s) == parse_sns_message(inv[s].ev).ok

\* C8: when Notify runs and no connection record exists for the event's
\* user_id, it attempts no push, writes no notification metadata to the
\* entity, and returns success with notification_sent=false.
C8_NotConnected ==
    \A s \in Slots :
        (/\ Done(s, "notify") /\ NoFault(inv[s].log) /\ Parsed(s)
         /\ inv[s].loc.user_id \notin DOMAIN connections)
        => /\ NoCalls(inv[s].log, {"post_to_connection", "update_item"})
           /\ inv[s].resp.kind = "success"
           /\ inv[s].resp.data.notification_sent = FALSE
           /\ inv[s].resp.data.user_id = inv[s].loc.user_id

C8_Witness ==
    \E s \in Slots :
        /\ Done(s, "notify") /\ NoFault(inv[s].log) /\ Parsed(s)
        /\ inv[s].loc.user_id \notin DOMAIN connections
        /\ connections # EmptyTable
        /\ inv[s].resp.kind = "success"

\* The push of the invocation raised the gone indication.
PushGone(log) ==
    \E i \in 1..Len(log) : log[i].op = "post_to_connection" /\ log[i].out = GoneException

\* C9: when the push in Notify fails with a gone indication (the delete
\* succeeding), the connection record of that user is deleted, no
\* notification metadata is written to the entity, and Notify returns success
\* with notification_sent=false.
C9_GoneConnection ==
    \A s \in Slots :
        (/\ Done(s, "notify") /\ PushGone(inv[s].log)
         /\ OnlyFailed(inv[s].log, "post_to_connection"))
        => /\ inv[s].loc.user_id \notin DOMAIN connections
           /\ CallsOf(inv[s].log, {"delete_connection"})
                 = <<Call("delete_connection", inv[s].loc.user_id, "ok")>>
           /\ NoCalls(inv[s].log, {"update_item"})
           /\ inv[s].resp.kind = "success"
           /\ inv[s].resp.data.notification_sent = FALSE

C9_Witness ==
    \E s \in Slots :
        /\ Done(s, "notify") /\ PushGone(inv[s].log)
        /\ OnlyFailed(inv[s].log, "post_to_connection")
        /\ inv[s].resp.kind = "success"

\* C10: with the Connection Registry invocations run one after another, once
\* $disconnect for connection c has returned 200 no connection record holds
\* connection_id c; so $connect with user_id=u on c followed by $disconnect
\* on c leaves no record for u.
C10_DisconnectRemoves ==
    \A s \in Slots :
        (/\ Done(s, "websocket") /\ inv[s].ev.route = "$disconnect"
         /\ inv[s].resp.kind = "http" /\ inv[s].resp.code = 200)
        => \A u \in DOMAIN connections :
              connections[u].connection_id # inv[s].ev.connection_id

C10_Witness ==
    \E s \in Slots :
        /\ Done(s, "websocket") /\ inv[s].ev.route = "$disconnect"
        /\ inv[s].resp.kind = "http" /\ inv[s].resp.code = 200
        /\ Len(CallsOf(inv[s].log, {"delete_connection"})) = 2

\* C11: no exception propagates out of a handler: every invocation of Ingest,
\* Process, Notify and the Connection Registry ends in a structured response,
\* whatever the event and whichever collaborator call fails, the acquisition
\* of the clients and the reading of connection id and route included.
C11_NoExceptionEscapes ==
    \A s \in Slots : inv[s].pc = "done" => inv[s].resp.kind # "raised"

\* The texts of the exceptions the store, generation and transport calls of
\* an invocation raised.
RaisedTexts(log) ==
    {log[i].out : i \in {j \in 1..Len(log) : log[j].op # "clients" /\ log[j].out # "ok"}}

\* C12: in Ingest, Process and Notify, when a store, generation or transport
\* call fails, the error returned to the caller is a fixed generic message:
\* it does not carry the text of the exception, so two runs that differ only
\* in that text return identical responses.
C12_GenericError ==
    \A s \in Slots :
        (/\ inv[s].pc = "done" /\ inv[s].h \in {"ingest", "process", "notify"}
         /\ inv[s].resp.kind = "error")
        => inv[s].resp.error \notin RaisedTexts(inv[s].log)

\* The attributes a Notify invocation may write (updated_at, stamped by the
\* store adapter, is not part of the items modelled).
NotifyMayWrite == {"notification_sent", "notification_details", "updated_at"}

\* The step is one of a Notify invocation.
NotifyStep == \E s \in Slots : inv'[s] # inv[s] /\ inv'[s].h = "notify"

\* The attributes of the item at k that differ between two tables; the key
\* attributes are not written attributes.
Written(before, after, k) ==
    LET old == IF k \in DOMAIN before THEN before[k] ELSE [PK |-> k[1], SK |-> k[2]]
        new == after[k]
    IN  {a \in DOMAIN old \cup DOMAIN new :
            ~(a \in DOMAIN old /\ a \in DOMAIN new /\ old[a] = new[a])}

\* C13: a Notify invocation never changes an entity's status, question,
\* answer, sources or error_message: the only attributes it may write are
\* notification_sent, notification_details and updated_at (over every event
\* and every failing call).
C13_NotifyFrame ==
    [][NotifyStep =>
         /\ DOMAIN questions \subseteq DOMAIN questions'
         /\ \A k \in DOMAIN questions' :
               Written(questions, questions', k) \subseteq NotifyMayWrite]_vars

C13_Witness ==
    \E s \in Slots :
        /\ Done(s, "notify") /\ inv[s].resp.kind = "success"
        /\ inv[s].resp.data.notification_sent = TRUE
        /\ LET key == Key(inv[s].loc.user_id, inv[s].loc.question_id)
           IN  /\ key \in DOMAIN questions
               /\ "status" \in DOMAIN questions[key]
               /\ "notification_sent" \in DOMAIN questions[key]

\* The step is one of a Process or Notify invocation.
ProcessOrNotifyStep ==
    \E s \in Slots : inv'[s] # inv[s] /\ inv'[s].h \in {"process", "notify"}

\* C14: question entities are created only by Ingest: no Process or Notify
\* invocation, on any event and under any collaborator failure, makes a record
\* exist at a (user_id, question_id) key where none existed before, so every
\* record of the question store carries the question text and the status
\* Ingest wrote at creation.
C14_OnlyIngestCreates ==
    [][ProcessOrNotifyStep =>
         /\ DOMAIN questions' \subseteq DOMAIN questions
         /\ \A k \in DOMAIN questions' :
               "question" \in DOMAIN questions'[k] /\ "status" \in DOMAIN questions'[k]]_vars

\* Both fields are there and non-empty after trimming.
BothNonEmpty(body) ==
    /\ "user_id" \in body.has /\ StrLen(Strip(body.user_id)) > 0
    /\ "question" \in body.has /\ StrLen(Strip(body.question)) > 0

\* Ingest accepted the request / rejected it with a structured validation
\* error.
Accepted(s) == inv[s].resp.kind = "success" /\ inv[s].resp.code = 200

ValidationError(s) == inv[s].resp = Error(400, "ValidationError")

\* An Ingest invocation on a well-formed body, none of whose calls raised.
Ingested(s) == Done(s, "ingest") /\ inv[s].ev.json_ok /\ NoFault(inv[s].log)

\* C15 as stated: a request is accepted if and only if user_id and question
\* are both non-empty after trimming and the submitted question is at most
\* 2000 characters long; every submitted question longer than 2000 characters
\* is rejected with a structured validation error.
C15_Original ==
    \A s \in Slots :
        Ingested(s) =>
            LET ok == /\ BothNonEmpty(inv[s].ev)
                      /\ StrLen(inv[s].ev.question) <= MAX_QUESTION_LEN
            IN  /\ Accepted(s) <=> ok
                /\ ~ok => ValidationError(s)

\* C15, amended: a request is accepted if and only if user_id and question
\* are both non-empty after trimming and the trimmed question is at most 2000
\* characters long; a question of 2000 characters is accepted and every
\* question longer than 2000 characters after trimming is rejected with a
\* structured validation error.
C15_AcceptedIff ==
    \A s \in Slots :
        Ingested(s) =>
            LET ok == /\ BothNonEmpty(inv[s].ev)
                      /\ StrLen(Strip(inv[s].ev.question)) <= MAX_QUESTION_LEN
            IN  /\ Accepted(s) <=> ok
                /\ ~ok => ValidationError(s)

C15_Witness ==
    \E s \in Slots :
        /\ Ingested(s) /\ Accepted(s)
        /\ StrLen(Strip(inv[s].ev.question)) = MAX_QUESTION_LEN
        /\ StrLen(inv[s].ev.question) > MAX_QUESTION_LEN

\* C16: for every existing entity and every field mapping, update_question
\* followed by get_question returns an entity in which each written field
\* has the written value and updated_at is strictly greater than its value
\* before the update.
C16_UpdateGetRoundTrip ==
    (inv[1].h = "update_question" /\ inv[1].pc = "done") =>
        LET written == inv[1].ev.update_data
            before == inv[1].loc.before
            got == inv[1].resp
        IN  /\ got # NoItem
            /\ \A a \in DOMAIN written : a \in DOMAIN got /\ got[a] = written[a]
            /\ got.updated_at > before.updated_at

\* The three cases in which the Connection Registry may change the store.
MayChangeConnections(ev) ==
    \/ ev.route = "$connect" /\ "query" \in ev.has /\ Truthy(ev.user_id)
    \/ ev.route = "register" /\ "body" \in ev.has /\ Truthy(ev.user_id)
    \/ ev.route = "$disconnect"

\* The status code of the claim for the other cases.
CodeWithoutChange(ev) ==
    IF ev.route = "$connect" THEN 200 ELSE IF ev.route = "register" THEN 400 ELSE 404

\* C17: the Connection Registry handler changes the connections store only
\* on $connect with a user_id query parameter, on register with a user_id in
\* the body, and on $disconnect (whichever call fails); $connect without
\* user_id returns 200, register without user_id returns 400 and any other
\* route returns 404, each leaving the connections store unchanged (for an
\* event that carries a route, the table being obtained).
C17_RegistryFrame ==
    [][\A s \in Slots :
         (inv'[s] # inv[s] /\ inv'[s].h = "websocket") =>
            LET ev == inv'[s].ev
            IN  /\ connections' # connections => MayChangeConnections(ev)
                /\ (/\ inv'[s].pc = "done" /\ ev.context_ok /\ NoFault(inv'[s].log)
                    /\ ~MayChangeConnections(ev))
                   => /\ inv'[s].resp.kind = "http"
                      /\ inv'[s].resp.code = CodeWithoutChange(ev)
                      /\ Ops(inv'[s].log) = <<"clients">>
                      /\ connections' = connections]_vars

C17_Witness ==
    \E s \in Slots :
        /\ Done(s, "websocket") /\ inv[s].ev.route = "register"
        /\ ~MayChangeConnections(inv[s].ev)
        /\ inv[s].resp.kind = "http" /\ inv[s].resp.code = 400
        /\ connections # EmptyTable

\* C18: Process and Notify apply the same envelope-unwrap rule: for every
\* inbound event, bare or wrapped in a pub/sub record, Notify extracts a
\* (user_id, question_id) pair if and only if Process extracts one, and the
\* two pairs are equal.
C18_SameUnwrapRule ==
    (inv[1].h = "parse_sns_message" /\ inv[1].pc = "done") =>
        /\ inv[1].resp.notify.ok <=> inv[1].resp.process.ok
        /\ inv[1].resp.notify.ok => inv[1].resp.notify = inv[1].resp.process

ConfigErrors ==
    { "Knowledge Base ID not configured. Set KNOWLEDGE_BASE_ID.",
      "Environment variable AWS_ACCOUNT_ID is not set." }

\* C19: the Generation Adapter fails with a configuration error, without
\* making any call to the retrieval+generation service, when the
\* knowledge/corpus identifier is absent or when the model identifier is not
\* fully qualified and the account identifier is missing; an already
\* fully-qualified model identifier is used unchanged and needs no account
\* identifier.
C19_ConfigErrors ==
    (inv[1].h = "retrieve_and_generate" /\ inv[1].pc = "done") =>
        LET c == inv[1].ev
            calls == inv[1].loc.calls
        IN  /\ (\/ Unset(c.knowledge_base_id)
                \/ ~c.inference_profile_id.arn /\ Unset(c.account))
               => /\ inv[1].resp.kind = "raised"
                  /\ inv[1].resp.error \in ConfigErrors
                  /\ calls = <<>>
            /\ (~Unset(c.knowledge_base_id) /\ c.inference_profile_id.arn)
               => /\ Len(calls) = 1
                  /\ calls[1].modelArn = c.inference_profile_id
                  /\ calls[1].knowledgeBaseId = c.knowledge_base_id
                  /\ inv[1].resp.kind = "raised" => inv[1].resp.error = c.out

C19_Witness ==
    /\ inv[1].h = "retrieve_and_generate" /\ inv[1].pc = "done"
    /\ ~Unset(inv[1].ev.knowledge_base_id)
    /\ ~inv[1].ev.inference_profile_id.arn /\ Unset(inv[1].ev.account)
    /\ inv[1].ev.out = "ok"
    /\ inv[1].resp.kind = "raised"
    /\ inv[1].loc.calls = <<>>

\* No call on the store (and no acquisition of the clients) raised.
StoreCallsOk(log) ==
    \A i \in 1..Len(log) :
        log[i].op \in {"clients", "get_item", "update_item"} => log[i].out = "ok"

Terminal == {STATUS_COMPLETED, STATUS_ERROR}

\* The lookup of the Process invocation found an entity with a question text.
FoundWithText(s) ==
    /\ LookedUp(s) /\ inv[s].loc.question_item # NoItem
    /\ "question" \in DOMAIN inv[s].loc.question_item
    /\ Truthy(inv[s].loc.question_item.question)

\* C20: Process does not consult the entity's current status: a process-event
\* delivered for an existing entity in any status (pending, processing,
\* completed or error) writes status processing, calls the Generation Adapter
\* once, and writes a terminal status again (the store calls succeeding; the
\* generation call and the publish may fail).
C20_IgnoresStatus ==
    \A s \in Slots :
        (Done(s, "process") /\ StoreCallsOk(inv[s].log) /\ FoundWithText(s)) =>
            LET l == inv[s].loc
                key == Key(l.user_id, l.question_id)
                updates == CallsOf(inv[s].log, {"update_item"})
            IN  /\ Len(updates) >= 2
                /\ updates[1].arg = [key |-> key, upd |-> [status |-> STATUS_PROCESSING]]
                /\ Len(CallsOf(inv[s].log, {"retrieve_and_generate"})) = 1
                /\ updates[Len(updates)].arg.key = key
                /\ updates[Len(updates)].arg.upd.status \in Terminal
                /\ questions[key].status \in Terminal

C20_Witness ==
    \E s \in Slots :
        /\ Done(s, "process") /\ StoreCallsOk(inv[s].log) /\ FoundWithText(s)
        /\ inv[s].loc.question_item.status = STATUS_COMPLETED
        /\ questions[Key(inv[s].loc.user_id, inv[s].loc.question_id)].status \in Terminal
        /\ Len(CallsOf(inv[s].log, {"retrieve_and_generate"})) = 1

\* The calls of an invocation that raised, in order.
Failures(log) == SelectSeq(log, LAMBDA c : c.out # "ok")

\* C21: when Process's main flow fails and the compensating error write or
\* the error notify publish fails as well, the invocation still returns a
\* structured error whose message is that of the primary failure, not of the
\* secondary one.
C21_PrimaryErrorKept ==
    \A s \in Slots :
        (Done(s, "process") /\ Len(Failures(inv[s].log)) >= 2) =>
            LET failed == Failures(inv[s].log)
            IN  /\ failed[1].op # "clients"
                /\ Len(failed) = 2
                /\ \/ failed[2].op = "update_item" /\ failed[2].arg.upd.status = STATUS_ERROR
                   \/ failed[2].op = "publish_notify" /\ failed[2].arg.status = STATUS_ERROR
                /\ inv[s].resp.kind = "error"
                /\ inv[s].resp.error = failed[1].out

C21_Witness ==
    \E s \in Slots :
        /\ Done(s, "process") /\ Len(Failures(inv[s].log)) = 2
        /\ Failures(inv[s].log)[1].out # Failures(inv[s].log)[2].out
        /\ Failures(inv[s].log)[2].op = "publish_notify"
        /\ inv[s].resp.kind = "error"
        /\ inv[s].resp.error = Failures(inv[s].log)[1].out

\* The push of the invocation raised, and not with the gone indication.
PushFailedNotGone(log) ==
    \E i \in 1..Len(log) :
        log[i].op = "post_to_connection" /\ log[i].out \notin {"ok", GoneException}

\* C22: when the push in Notify fails with a failure that is not a gone
\* indication, the user's connection record is left in place, no notification
\* metadata is written to the entity, and Notify returns success with
\* notification_sent=false.
C22_PushFailureKeepsConnection ==
    \A s \in Slots :
        (Done(s, "notify") /\ PushFailedNotGone(inv[s].log)) =>
            LET l == inv[s].loc
            IN  /\ l.user_id \in DOMAIN connections
                /\ connections[l.user_id] = ConnectionItem(l.user_id, l.connection_id)
                /\ NoCalls(inv[s].log, {"delete_connection", "update_item"})
                /\ inv[s].log[Len(inv[s].log)].op = "post_to_connection"
                /\ inv[s].resp = NotifyResponse(l, FALSE)

C22_Witness ==
    \E s \in Slots :
        /\ Done(s, "notify") /\ PushFailedNotGone(inv[s].log)
        /\ inv[s].loc.user_id \in DOMAIN connections
        /\ inv[s].resp.kind = "success"
        /\ inv[s].resp.data.notification_sent = FALSE

\* The connection id slot s may delete the record of: the one that
\* disconnected, or the one the push of Notify found gone.
DeletableBy(s) ==
    IF inv[s].h = "websocket" THEN inv[s].ev.connection_id ELSE inv[s].loc.connection_id

\* C23: under every interleaving of Connection Registry and Notify
\* invocations, a connection record is deleted only if its connection_id at
\* the moment of deletion is the one that disconnected ($disconnect) or the
\* one the push found gone (Notify); a record that a concurrent $connect or
\* register has overwritten with a new connection_id is never deleted.
C23_DeletesOnlyItsConnection ==
    [][\A u \in DOMAIN connections \ DOMAIN connections' :
         \E s \in Slots :
            /\ inv'[s] # inv[s]
            /\ connections[u].connection_id = DeletableBy(s)]_vars

\* The successful writes of a status in the log, and the successful publishes
\* of a notify-event.
WroteStatus(c, statuses) ==
    c.op = "update_item" /\ c.out = "ok" /\ c.arg.upd.status \in statuses

PublishedStatus(c, statuses) ==
    c.op = "publish_notify" /\ c.out = "ok" /\ c.arg.status \in statuses

\* C24: within a single Process invocation, once the completed write (status
\* completed with answer and sources) has been stored, the invocation never
\* afterwards writes status error for that entity nor publishes an error
\* notify-event, whatever the outcome of the notify publish.
C24_NoErrorAfterCompleted ==
    \A s \in Slots :
        inv[s].h = "process" =>
            \A i, j \in 1..Len(inv[s].log) :
                (i < j /\ WroteStatus(inv[s].log[i], {STATUS_COMPLETED})) =>
                    /\ ~WroteStatus(inv[s].log[j], {STATUS_ERROR})
                    /\ ~PublishedStatus(inv[s].log[j], {STATUS_ERROR})

\* No Ingest invocation is in flight.
IngestAtRest == \A s \in Slots : inv[s].h = "ingest" => inv[s].pc = "done"

\* C25: Ingest is all-or-nothing: an invocation either stores the entity,
\* publishes its process-event and returns 200, or returns a non-200 response
\* and leaves both the question store and the process topic as they were; no
\* pending entity exists whose process-event was never published.
C25_AllOrNothing ==
    /\ \A s \in Slots :
          Done(s, "ingest") =>
             \/ Accepted(s)
             \/ \A i \in 1..Len(inv[s].log) :
                   inv[s].log[i].op \in {"put_item", "publish_process"}
                      => inv[s].log[i].out # "ok"
    /\ IngestAtRest =>
          \A k \in DOMAIN questions :
             Attr(questions[k], "status", "") = STATUS_PENDING =>
                \E i \in 1..Len(processTopic) :
                   Key(processTopic[i].user_id, processTopic[i].question_id) = k

\* C26: every Process invocation that writes status processing writes status
\* completed or status error for that entity before it returns, so no entity
\* is left in processing after its invocation has ended, even when a store or
\* publish call fails during the invocation.
C26_NeverLeftProcessing ==
    \A s \in Slots :
        Done(s, "process") =>
            \A i \in 1..Len(inv[s].log) :
                WroteStatus(inv[s].log[i], {STATUS_PROCESSING}) =>
                    /\ \E j \in (i + 1)..Len(inv[s].log) :
                          /\ WroteStatus(inv[s].log[j], Terminal)
                          /\ inv[s].log[j].arg.key = inv[s].log[i].arg.key
                    /\ questions[inv[s].log[i].arg.key].status # STATUS_PROCESSING

\* The statuses an invocation wrote, and the notify-events it published, in
\* order (the calls that raised left nothing).
Writes(log) == SelectSeq(log, LAMBDA c : c.op = "update_item" /\ c.out = "ok")

Publishes(log) == SelectSeq(log, LAMBDA c : c.op = "publish_notify" /\ c.out = "ok")

\* C27: each Process invocation publishes at most one notify-event, and the
\* status carried by that event equals the last status the same invocation
\* wrote to the entity.
C27_OnePublishOfLastWrite ==
    \A s \in Slots :
        inv[s].h = "process" =>
            LET written == Writes(inv[s].log)
                published == Publishes(inv[s].log)
            IN  /\ Len(published) <= 1
                /\ Len(published) = 1 =>
                      /\ Len(written) >= 1
                      /\ written[Len(written)].arg.upd.status = published[1].arg.status
                      /\ written[Len(written)].arg.key
                            = Key(published[1].arg.user_id, published[1].arg.question_id)

C27_Witness ==
    \E s \in Slots :
        /\ Done(s, "process")
        /\ \E i \in 1..Len(inv[s].log) :
              /\ inv[s].log[i].op = "publish_notify" /\ inv[s].log[i].out # "ok"
              /\ inv[s].log[i].arg.status = STATUS_COMPLETED
        /\ Len(Publishes(inv[s].log)) = 1
        /\ Publishes(inv[s].log)[1].arg.status = STATUS_ERROR
        /\ Writes(inv[s].log)[Len(Writes(inv[s].log))].arg.upd.status = STATUS_ERROR

\* C28: whenever Notify pushes a payload for an entity, the status in the
\* pushed payload equals the status stored for that entity when Notify read
\* it, under every ordering of process-event redeliveries and notify-event
\* deliveries.
C28_PushedStatusIsStored ==
    \A s \in Slots :
        inv[s].h = "notify" =>
            \A i \in 1..Len(inv[s].log) :
                (inv[s].log[i].op = "post_to_connection" /\ inv[s].log[i].out = "ok") =>
                    inv[s].log[i].arg.payload.status
                        = Attr(inv[s].loc.question_data, "status", "")

\* The notify-events with a terminal status published for the entity at key.
TerminalNotifications(key) ==
    SelectSeq(notifyTopic,
              LAMBDA m : Key(m.user_id, m.question_id) = key /\ m.status \in Terminal)

\* C29: for each question, across all deliveries of its process-event under
\* at-least-once delivery, at most one notify-event with a terminal status
\* (completed or error) is ever published, so a client never receives both a
\* completed and an error notification for the same question.
C29_OneTerminalNotification ==
    \A k \in DOMAIN questions : Len(TerminalNotifications(k)) <= 1

\* Two Process invocations of the same process-event have both returned,
\* every call of theirs on the store having succeeded and found the entity.
BothReturned ==
    /\ \A s \in Slots : Done(s, "process") /\ StoreCallsOk(inv[s].log) /\ FoundWithText(s)
    /\ inv[1].ev = inv[2].ev

\* The answers the Generation Adapter returned to the invocations.
ReturnedAnswers == {inv[s].loc.rag.answer : s \in {t \in Slots : inv[t].loc.rag # <<>>}}

\* C30: for two concurrent Process invocations of the same process-event on
\* one entity, under every interleaving of their store reads and writes with
\* all store writes succeeding, once both have returned the stored status is
\* completed or error, and when it is completed the stored answer is the
\* answer the Generation Adapter returned to one of the two invocations.
C30_ConcurrentProcessTerminal ==
    BothReturned =>
        LET item == questions[Key(inv[1].loc.user_id, inv[1].loc.question_id)]
        IN  /\ item.status \in Terminal
            /\ item.status = STATUS_COMPLETED => item.answer \in ReturnedAnswers

\* Both invocations read the entity before either had written to it, the
\* generation failed in one of them, and the answer of the other is stored.
C30_Witness ==
    /\ BothReturned
    /\ \A s \in Slots : inv[s].loc.question_item.status = STATUS_PENDING
    /\ \E s \in Slots : inv[s].loc.rag = <<>>
    /\ questions[Key(U1, Q1)].status = STATUS_COMPLETED
    /\ questions[Key(U1, Q1)].answer \in ReturnedAnswers

====
